---- MODULE Spec2Model ----
(***************************************************************************)
(* Model of Event_Visualizer (src/event_visualizer.py): reconstruction of  *)
(* one ATAR event from the raw per-hit branches of the "atar" tree and the *)
(* per-record branches of the "calorimeter" tree (process_event), the      *)
(* five-panel figure (plot_event) and the event selection (select_events). *)
(*                                                                         *)
(* Conventions of the model                                                *)
(*  - Python sequences are 0-based, TLA+ sequences 1-based: element i of a *)
(*    Python list is element i+1 here; event indices keep Python's base.   *)
(*  - hit times are integers in tenths of a nanosecond, energies integers  *)
(*    in an arbitrary unit: the arithmetic the code does on them (a        *)
(*    difference, a comparison, a sum) is modelled exactly on these.       *)
(*  - np.nan is NaN, None is None.                                         *)
(***************************************************************************)
EXTENDS Integers, Sequences, FiniteSets, TLC

VARIABLES
    table,      \* the data source: one row per event, fixed once loaded
    tree_atar,  \* the "atar" tree: current entry and its branch buffers
    tree_calo,  \* the "calorimeter" tree: current entry and its branch buffers
    returned,   \* the Event objects process_event has returned, oldest first
    out         \* the outcome of the last call of the visualizer

vars == <<table, tree_atar, tree_calo, returned, out>>

----------------------------------------------------------------------------
(* Program constants *)

\* pixel_hits values start at 100,000
HitOffset == 100000

npixels_per_plane == 100

\* the number of detector planes: plot_event(e, 50), range(50)
NumPlanes == 50

\* 1.0 ns, in tenths of a nanosecond
GapThreshold == 10

\* np.nan, the filler of x_data / y_data; never a strip number (0..99)
NaN == -1

\* the value dict.get gives for a key the dictionary does not hold
None == <<>>

\* the name of the one std::vector object behind tree_atar.pixel_pdg
PdgBranch == "tree_atar.pixel_pdg"

----------------------------------------------------------------------------
(* Bounds of the model *)

\* most hits in one event
MaxHits == 2

\* most calls of process_event in one run
MaxCalls == 2

\* most calorimeter records in one event of the sources that vary them
MaxCaloHits == 3

\* number of events of the sources that select_events is run on
SelectRows == 5

\* most hits in one event of the sources that vary the hit times
MaxGapHits == 4

----------------------------------------------------------------------------
(* Python and NumPy primitives *)

Min(a, b) == IF a <= b THEN a ELSE b

\* int(np.floor(a / b)) for b > 0
FloorDiv(a, b) == IF a >= 0 THEN a \div b ELSE -((-a + b - 1) \div b)

\* a % b for b > 0: Python's result has the sign of b
PyMod(a, b) == a - b * FloorDiv(a, b)

\* seq[i] of a Python list or a std::vector of length n: is index i in range?
\* (a list also takes -n..-1, counted from the end)
PyIndexInRange(n, i) == -n <= i /\ i < n

\* the 0-based position that seq[i] reads or writes, i in range
PyIndex(n, i) == IF i >= 0 THEN i ELSE i + n

RECURSIVE SumSeq(_)
SumSeq(s) == IF s = <<>> THEN 0 ELSE Head(s) + SumSeq(Tail(s))

RECURSIVE MaxSeq(_)
MaxSeq(s) == IF Len(s) = 1 THEN s[1]
             ELSE LET m == MaxSeq(Tail(s)) IN IF s[1] >= m THEN s[1] ELSE m

----------------------------------------------------------------------------
(* Geometry decoding: lines 103 and 105 *)

DecodePlaneNoWrapFix(hit) == FloorDiv(hit - HitOffset, npixels_per_plane)
DecodePlane(hit) == FloorDiv(hit - 1 - HitOffset, npixels_per_plane)

DecodeCoord(hit) == PyMod(hit - 1, npixels_per_plane)

----------------------------------------------------------------------------
(* The Event container *)

\* Event(), of Event.py: empty series and one zero per plane (the Event
\* Record of the specification, created fresh by every call)
NewEvent ==
    [t_data |-> <<>>, x_data |-> <<>>, y_data |-> <<>>, z_data |-> <<>>,
     E_data |-> <<>>, E_per_plane |-> [p \in 1..NumPlanes |-> 0],
     max_E |-> 0, gap_times |-> <<>>, pixel_pdgs |-> <<>>,
     crystal_ids |-> <<>>, calo_edep |-> <<>>, r_theta_phis |-> <<>>]

----------------------------------------------------------------------------
(* The trees *)

\* a tree right after get_trees: no entry read yet, empty branch buffers
FreshAtar ==
    [entry |-> -1, pixel_hits |-> <<>>, pixel_time |-> <<>>,
     pixel_edep |-> <<>>, pixel_pdg |-> <<>>]

FreshCalo == [entry |-> -1, crystal |-> <<>>, edep |-> <<>>]

\* tree_atar.GetEntry(event_index): the branch buffers are refilled in place
AtarGetEntry(event_index) ==
    LET row == table[event_index + 1]
    IN  [entry |-> event_index, pixel_hits |-> row.pixel_hits,
         pixel_time |-> row.pixel_time, pixel_edep |-> row.pixel_edep,
         pixel_pdg |-> row.pixel_pdg]

\* tree_calo.GetEntry(event_index)
CaloGetEntry(event_index) ==
    LET row == table[event_index + 1]
    IN  [entry |-> event_index, crystal |-> row.crystal, edep |-> row.edep]

----------------------------------------------------------------------------
(* process_event: the loop over the hits, lines 100-129 *)

\* plane % 2 == 0: the plane measures x
IsXPlane(plane) == PyMod(plane, 2) = 0

\* cur_time - last_time > 1.0
IsGapInclusive(cur_time, last_time) == cur_time - last_time >= GapThreshold
IsGap(cur_time, last_time) == cur_time - last_time > GapThreshold

\* event.E_per_plane[plane] += edep, plane in range of the list
AddToPlaneOverwrite(E_per_plane, plane, edep) ==
    [E_per_plane EXCEPT ![PyIndex(NumPlanes, plane) + 1] = edep]
AddToPlane(E_per_plane, plane, edep) ==
    [E_per_plane EXCEPT ![PyIndex(NumPlanes, plane) + 1] = @ + edep]

\* One pass of the loop body for the i-th hit (1-based) of the buffers atar.
\* st = [event, cur_time, raised]; an exception ends the call, so that once
\* raised is set the remaining passes change nothing.
LoopBody(atar, st, i) ==
    IF st.raised # "" THEN st
    ELSE
    LET hit   == atar.pixel_hits[i]
        plane == DecodePlane(hit)
        cur_val == DecodeCoord(hit)
        last_time == st.cur_time
        ev == st.event
    IN  IF i > Len(atar.pixel_time) THEN       \* pixel_times[i], line 107
            [st EXCEPT !.raised = "IndexError"]
        ELSE IF i > Len(atar.pixel_edep) THEN  \* pixel_edep[i], line 122
            [st EXCEPT !.raised = "IndexError"]
        ELSE IF ~PyIndexInRange(NumPlanes, plane) THEN  \* line 129
            [st EXCEPT !.raised = "IndexError"]
        ELSE
        LET cur_time == atar.pixel_time[i]
            edep == atar.pixel_edep[i]
        IN  [event |->
                [ev EXCEPT
                   !.t_data = Append(@, cur_time),
                   !.x_data = Append(@, IF IsXPlane(plane) THEN cur_val ELSE NaN),
                   !.y_data = Append(@, IF IsXPlane(plane) THEN NaN ELSE cur_val),
                   !.z_data = Append(@, plane),
                   !.E_data = Append(@, edep),
                   !.gap_times = IF IsGap(cur_time, last_time)
                                 THEN Append(@, cur_time - last_time) ELSE @,
                   !.E_per_plane = AddToPlane(@, plane, edep)],
             cur_time |-> cur_time,
             raised |-> ""]

RECURSIVE HitLoop(_, _, _)
HitLoop(atar, st, i) ==
    IF i > Len(atar.pixel_hits) THEN st
    ELSE HitLoop(atar, LoopBody(atar, st, i), i + 1)

----------------------------------------------------------------------------
(* process_event: the calorimeter part, lines 137-146 *)

\* number of crystals the geometry dictionary holds
NumCrystals == 2

\* calo_analysis.get_crystal_data(): crystal ID -> (r, theta, phi)
global_crys_dict == [ID \in 1..NumCrystals |-> <<10, ID, 0 - ID>>]

\* global_crys_dict.get(ID)
DictGet(ID) ==
    IF ID \in DOMAIN global_crys_dict THEN global_crys_dict[ID] ELSE None

\* the loop of lines 144-146: one entry per crystal ID, in order
ResolveCrystalsSkipMissing(crystal_ids) ==
    SelectSeq([i \in 1..Len(crystal_ids) |-> DictGet(crystal_ids[i])],
              LAMBDA c : c # None)
ResolveCrystals(crystal_ids) ==
    [i \in 1..Len(crystal_ids) |-> DictGet(crystal_ids[i])]

----------------------------------------------------------------------------
(* process_event as a whole, lines 82-152 *)

\* The body after the two GetEntry calls, on the refilled buffers: the Event
\* it returns, or the exception it raises.  pixel_pdgs is bound to the
\* tree's own vector object (line 132, no copy); the calorimeter branches
\* are copied with list() (lines 140-141).
BuildEvent(atar, calo) ==
    LET st == HitLoop(atar, [event |-> NewEvent, cur_time |-> 0, raised |-> ""], 1)
        ev == st.event
    IN  IF st.raised # "" THEN [raised |-> st.raised, event |-> NewEvent]
        ELSE [raised |-> "",
              event |-> [ev EXCEPT
                           !.pixel_pdgs = PdgBranch,
                           !.max_E = MaxSeq(ev.E_per_plane),
                           !.crystal_ids = calo.crystal,
                           !.calo_edep = calo.edep,
                           !.r_theta_phis = ResolveCrystals(calo.crystal)]]

\* What a holder of a returned Event reads now: pixel_pdgs is whatever the
\* tree's vector holds at this moment.
ObservedWith(event, atar) == [event EXCEPT !.pixel_pdgs = atar.pixel_pdg]
Observed(event) == ObservedWith(event, tree_atar)

\* process_event(tree_atar, tree_calo, event_index)
ProcessEvent(event_index) ==
    /\ Len(returned) < MaxCalls
    /\ LET atar == AtarGetEntry(event_index)
           calo == CaloGetEntry(event_index)
           res  == BuildEvent(atar, calo)
       IN  /\ tree_atar' = atar
           /\ tree_calo' = calo
           /\ returned' = IF res.raised = ""
                          THEN Append(returned,
                                      [event_index |-> event_index,
                                       event |-> res.event])
                          ELSE returned
           /\ out' = [op |-> "process_event", arg |-> <<event_index>>,
                      raised |-> res.raised, value |-> <<>>]
    /\ UNCHANGED table

----------------------------------------------------------------------------
(* plot_event, lines 175-242, and plot_with_color_legend, lines 246-292 *)

particle_IDs == {211, -11, 11, -13, 13}

other_colors == <<"k", "gray", "cyan", "indigo", "teal", "lime">>

\* plot_with_color_legend(x_coords, y_coords, pixel_pdgs): zip() stops at the
\* shortest argument; every distinct code outside particle_IDs takes the
\* next entry of other_colors, and other_colors[i] raises past its end.
ColorLegendRaises(x_coords, y_coords, pixel_pdgs) ==
    LET n == Min(Len(x_coords), Min(Len(y_coords), Len(pixel_pdgs)))
        other_IDs == {pixel_pdgs[i] : i \in 1..n} \ particle_IDs
    IN  Cardinality(other_IDs) > Len(other_colors)

\* len(event.crystal_ids) > 1, line 220
CaloPanelWanted(event) == Len(event.crystal_ids) > 1

\* [coords[1] for coords in r_theta_phis] and [coords[2] for ...]: None is
\* not subscriptable
CoordsRaise(r_theta_phis) ==
    \E i \in 1..Len(r_theta_phis) : r_theta_phis[i] = None

\* The calorimeter panel of an Event as its holder sees it: the exception
\* raised, or the points of the scatter (theta, phi, colour value).
CaloPanel(event) ==
    IF ~CaloPanelWanted(event) THEN [raised |-> "", points |-> <<>>]
    ELSE IF CoordsRaise(event.r_theta_phis)
    THEN [raised |-> "TypeError", points |-> <<>>]
    ELSE IF Len(event.calo_edep) # Len(event.r_theta_phis)
    THEN [raised |-> "ValueError", points |-> <<>>]   \* scatter(..., c=...)
    ELSE [raised |-> "",
          points |-> [i \in 1..Len(event.r_theta_phis) |->
                        <<event.r_theta_phis[i][2], event.r_theta_phis[i][3],
                          event.calo_edep[i]>>]]

\* plot_event(event, 50) on the k-th returned Event
PlotEvent(k) ==
    /\ k \in 1..Len(returned)
    /\ LET event == Observed(returned[k].event)
           panel == CaloPanel(event)
       IN  out' = IF ColorLegendRaises(event.z_data, event.x_data, event.pixel_pdgs)
                  THEN [op |-> "plot_event", arg |-> <<k>>,
                        raised |-> "IndexError", value |-> <<>>]
                  ELSE [op |-> "plot_event", arg |-> <<k>>,
                        raised |-> panel.raised, value |-> panel.points]
    /\ UNCHANGED <<table, tree_atar, tree_calo, returned>>

----------------------------------------------------------------------------
(* select_events, lines 299-317 *)

\* most events asked of select_events
MaxCount == 3

\* the cut string of lines 301-306 on one row of the tree
Cut(row, is_event_DAR) ==
    LET deposit == SumSeq(row.pixel_edep) > 0    \* Sum$(pixel_edep) > 0
    IN  IF is_event_DAR = 0 THEN row.pion_dar = 0 /\ deposit
        ELSE IF is_event_DAR = 1 THEN row.pion_dar # 0 /\ deposit
        ELSE deposit

\* tree.Draw("Entry$", cut, "goff") and the loop over GetV1(): the entry
\* numbers of the rows that pass the cut, in the tree's order
RECURSIVE DrawEntries(_, _, _)
DrawEntries(tree, is_event_DAR, i) ==
    IF i > Len(tree) THEN <<>>
    ELSE (IF Cut(tree[i], is_event_DAR) THEN <<i - 1>> ELSE <<>>)
            \o DrawEntries(tree, is_event_DAR, i + 1)

\* seq[0:stop], a Python slice: a negative stop counts from the end
PySliceToSkipFirst(seq, stop) ==
    LET n == Len(seq)
        e == IF stop >= 0 THEN Min(stop, n) ELSE IF n + stop > 0 THEN n + stop ELSE 0
    IN  SubSeq(seq, 2, e)
PySliceTo(seq, stop) ==
    LET n == Len(seq)
        e == IF stop >= 0 THEN Min(stop, n) ELSE IF n + stop > 0 THEN n + stop ELSE 0
    IN  SubSeq(seq, 1, e)

\* select_events(tree, is_event_DAR, num_events).  Entry$ comes back from
\* GetV1() as a double and int() restores it: exact for any entry number.
\* Draw reads only the branches of the cut; no Event refers to them.
SelectEvents(is_event_DAR, num_events) ==
    /\ LET events == DrawEntries(table, is_event_DAR, 1)
       IN  out' = [op |-> "select_events", arg |-> <<is_event_DAR, num_events>>,
                   raised |-> "", value |-> PySliceTo(events, num_events)]
    /\ UNCHANGED <<table, tree_atar, tree_calo, returned>>

----------------------------------------------------------------------------
(* Data sources *)

Row(hits, times, edeps, pdgs, dar, crystals, caloedeps) ==
    [pixel_hits |-> hits, pixel_time |-> times, pixel_edep |-> edeps,
     pixel_pdg |-> pdgs, pion_dar |-> dar, crystal |-> crystals,
     edep |-> caloedeps]

\* all sequences over S of length lo..hi
SeqsOf(S, lo, hi) == UNION {[1..n -> S] : n \in lo..hi}

NoCall == [op |-> "", arg |-> <<>>, raised |-> "", value |-> <<>>]

InitWith(t) ==
    /\ table = t
    /\ tree_atar = FreshAtar
    /\ tree_calo = FreshCalo
    /\ returned = <<>>
    /\ out = NoCall

\* every identifier from one plane below the stack to one plane above it
DecodeHitIds ==
    (HitOffset - npixels_per_plane + 1)
        .. (HitOffset + (NumPlanes + 1) * npixels_per_plane)

\* a source of one event with one hit, of any identifier around the stack
InitDecode ==
    \E hit \in DecodeHitIds :
        InitWith(<<Row(<<hit>>, <<5>>, <<1>>, <<211>>, 1, <<>>, <<>>)>>)

NextProcess == \E event_index \in 0..(Len(table) - 1) : ProcessEvent(event_index)

SpecDecode == InitDecode /\ [][NextProcess]_vars

----------------------------------------------------------------------------
\* The hit of the k-th returned Event at position i, as the source holds it
SourceHit(k, i) == table[returned[k].event_index + 1].pixel_hits[i]

\* C1: a hit identifier 100000 + 100*p + c + 1 with 0 <= p < 50 and
\* 0 <= c < 100 decodes to plane p and coordinate c: z_data holds p, and of
\* x_data, y_data one holds c and the other the filler.
DecodeRoundTrip ==
    \A k \in 1..Len(returned) :
        LET ev == returned[k].event IN
        \A i \in 1..Len(ev.z_data) :
            \A p \in 0..(NumPlanes - 1) :
                LET c == SourceHit(k, i) - 1 - HitOffset - npixels_per_plane * p
                IN  (0 <= c /\ c < npixels_per_plane) =>
                        /\ ev.z_data[i] = p
                        /\ {ev.x_data[i], ev.y_data[i]} = {c, NaN}

\* the boundary identifier 100100 has been decoded: plane 0, strip 99
DecodeBoundaryReached ==
    \E k \in 1..Len(returned) :
        /\ SourceHit(k, 1) = HitOffset + npixels_per_plane
        /\ returned[k].event.z_data = <<0>>
        /\ returned[k].event.x_data = <<npixels_per_plane - 1>>
        /\ returned[k].event.y_data = <<NaN>>

----------------------------------------------------------------------------
(* Sources that vary the hit times *)

\* hit times in tenths of a nanosecond: 0.2, 0.5, 1.2, 2.0, 2.1 ns
TimeValues == {2, 5, 12, 20, 21}

\* the i-th hit of these sources lies on strip 0 of plane i-1
RampHits(n) == [i \in 1..n |-> HitOffset + npixels_per_plane * (i - 1) + 1]

InitGap ==
    \E times \in SeqsOf(TimeValues, 0, MaxGapHits) :
        LET n == Len(times)
        IN  InitWith(<<Row(RampHits(n), times, [i \in 1..n |-> 1],
                           [i \in 1..n |-> 211], 1, <<>>, <<>>)>>)

SpecGap == InitGap /\ [][NextProcess]_vars

\* the times of the hits of the k-th returned Event, as the source holds them
SourceTimes(k) ==
    LET row == table[returned[k].event_index + 1]
    IN  SubSeq(row.pixel_time, 1, Len(row.pixel_hits))

\* t[i] - t[i-1], the predecessor of the first hit being time 0
Delta(t, i) == t[i] - (IF i = 1 THEN 0 ELSE t[i - 1])

\* the hits that follow their predecessor by more than 1.0 ns
GapHits(t) == {i \in 1..Len(t) : Delta(t, i) > GapThreshold}

\* C4: gap_times is, in hit arrival order, the sequence of the differences
\* t[i] - t[i-1] that are strictly greater than 1.0 ns, the predecessor of
\* the first hit being time 0; a first hit later than 1.0 ns gives its own
\* timestamp as the leading entry.
GapTimesAreLargeDeltas ==
    \A k \in 1..Len(returned) :
        LET t == SourceTimes(k)
            g == returned[k].event.gap_times
            G == GapHits(t)
        IN  /\ Len(g) = Cardinality(G)
            /\ \A i \in G : g[Cardinality({j \in G : j <= i})] = Delta(t, i)
            /\ (t # <<>> /\ t[1] > GapThreshold) => g[1] = t[1]

\* the event with hit times 0.2, 0.5, 2.0, 2.1 ns was returned with the one
\* gap of 1.5 ns
GapExampleReached ==
    \E k \in 1..Len(returned) :
        /\ SourceTimes(k) = <<2, 5, 20, 21>>
        /\ returned[k].event.gap_times = <<15>>

----------------------------------------------------------------------------
(* Sources that vary the hit identifiers, the energies and the lengths of  *)
(* the four per-hit branches                                               *)

\* plane -1 strip 99, plane 0 strip 99, plane 1 strip 0, plane 50 strip 0
ShapeHitIds ==
    {HitOffset, HitOffset + npixels_per_plane, HitOffset + npixels_per_plane + 1,
     HitOffset + NumPlanes * npixels_per_plane + 1}

EdepValues == {1, 2}

\* 0.5 ns, 1.0 ns, 1.5 ns, ...
RampTimes(n) == [i \in 1..n |-> 5 * i]

\* pion, positron, pion, positron, ...
RampPdgs(n) == [i \in 1..n |-> IF i % 2 = 1 THEN 211 ELSE -11]

InitShape ==
    \E hits \in SeqsOf(ShapeHitIds, 0, MaxHits),
       edeps \in SeqsOf(EdepValues, 0, MaxHits),
       ntimes \in 0..MaxHits, npdgs \in 0..MaxHits :
        InitWith(<<Row(hits, RampTimes(ntimes), edeps, RampPdgs(npdgs),
                       1, <<>>, <<>>)>>)

SpecShape == InitShape /\ [][NextProcess]_vars

\* the source row of the k-th returned Event
SourceRow(k) == table[returned[k].event_index + 1]

\* the source row of the last call of process_event
CalledRow == table[out.arg[1] + 1]

----------------------------------------------------------------------------
\* C3: the entries of E_per_plane sum to the sum of E_data, and E_data holds
\* the energy of every hit of the source, in order: each hit's energy went
\* into one plane's total and no hit was left out.
EnergyConserved ==
    \A k \in 1..Len(returned) :
        LET ev == returned[k].event
            row == SourceRow(k)
        IN  /\ Len(ev.E_per_plane) = NumPlanes
            /\ SumSeq(ev.E_per_plane) = SumSeq(ev.E_data)
            /\ ev.E_data = SubSeq(row.pixel_edep, 1, Len(row.pixel_hits))

\* an event with two hits on one plane was returned, with their energies
\* summed in that plane's total
EnergySummedReached ==
    \E k \in 1..Len(returned) :
        LET ev == returned[k].event
        IN  /\ ev.z_data = <<0, 0>>
            /\ ev.E_data = <<1, 2>>
            /\ ev.E_per_plane[1] = 3

\* is the identifier outside the 50 planes' range 100001..105000?
OutsideStack(hit) ==
    hit <= HitOffset \/ hit > HitOffset + NumPlanes * npixels_per_plane

\* C5 as claimed: a call of process_event on an event with a hit whose plane
\* index is outside 0..49 raises, and returns no Event.
OutOfRangePlaneRaises ==
    (/\ out.op = "process_event"
     /\ \E i \in 1..Len(CalledRow.pixel_hits) :
            OutsideStack(CalledRow.pixel_hits[i]))
        => out.raised # ""

\* have the four per-hit branches of the row the same length?
SameLengths(row) ==
    /\ Len(row.pixel_time) = Len(row.pixel_hits)
    /\ Len(row.pixel_edep) = Len(row.pixel_hits)
    /\ Len(row.pixel_pdg) = Len(row.pixel_hits)

\* C6 as claimed: a call of process_event on an event whose per-hit branches
\* differ in length raises, and returns no Event.
MismatchedLengthsRaise ==
    (out.op = "process_event" /\ ~SameLengths(CalledRow)) => out.raised # ""

\* C2 as claimed: in every returned Event the six per-hit series have one
\* length, the number of raw hits, and at every index exactly one of x_data,
\* y_data holds a strip number, the other the filler.
SeriesAligned ==
    \A k \in 1..Len(returned) :
        LET ev == Observed(returned[k].event)
            n == Len(SourceRow(k).pixel_hits)
        IN  /\ Len(ev.t_data) = n
            /\ Len(ev.x_data) = n
            /\ Len(ev.y_data) = n
            /\ Len(ev.z_data) = n
            /\ Len(ev.E_data) = n
            /\ Len(ev.pixel_pdgs) = n
            /\ \A i \in 1..n : (ev.x_data[i] = NaN) # (ev.y_data[i] = NaN)

----------------------------------------------------------------------------
(* The visualizer on a source of several events *)

\* number of events of the source
NumRows == 2

\* the crystal IDs a calorimeter record may carry: the last one is not in
\* the geometry dictionary
CrystalIds == 1..(NumCrystals + 1)

PdgValues == {211, -11}

\* well-formed events: n hits with their times, energies and particle
\* codes, and either no calorimeter record or two
EventRows ==
    UNION {{Row(RampHits(n), RampTimes(n), [i \in 1..n |-> 1], pdgs, dar,
                crystals, [i \in 1..Len(crystals) |-> 3])
              : pdgs \in [1..n -> PdgValues], dar \in {0, 1},
                crystals \in {<<>>, <<1, NumCrystals + 1>>}}
           : n \in 0..MaxHits}

Init == \E t \in [1..NumRows -> EventRows] : InitWith(t)

Next ==
    \/ \E event_index \in 0..(Len(table) - 1) : ProcessEvent(event_index)
    \/ \E k \in 1..MaxCalls : PlotEvent(k)
    \/ \E is_event_DAR \in 0..2, num_events \in 0..MaxCount :
            SelectEvents(is_event_DAR, num_events)

Spec == Init /\ [][Next]_vars

----------------------------------------------------------------------------
\* C7 as claimed: once process_event has returned an Event, no later call
\* changes any field of it as its holder reads it.
ReturnedEventsFrozen ==
    [][\A k \in 1..Len(returned) :
          /\ k <= Len(returned')
          /\ ObservedWith(returned'[k].event, tree_atar')
                = ObservedWith(returned[k].event, tree_atar)]_vars

----------------------------------------------------------------------------
(* Sources that vary the calorimeter records *)

CaloEdepValues == {3, 4}

\* one event with one hit and up to MaxCaloHits calorimeter records, each a
\* crystal ID with its deposited energy
InitCalo ==
    \E recs \in SeqsOf(CrystalIds \X CaloEdepValues, 0, MaxCaloHits) :
        InitWith(<<Row(RampHits(1), RampTimes(1), <<1>>, RampPdgs(1), 1,
                       [i \in 1..Len(recs) |-> recs[i][1]],
                       [i \in 1..Len(recs) |-> recs[i][2]])>>)

NextCalo ==
    \/ \E event_index \in 0..(Len(table) - 1) : ProcessEvent(event_index)
    \/ \E k \in 1..MaxCalls : PlotEvent(k)

SpecCalo == InitCalo /\ [][NextCalo]_vars

PlotToleratesMissingCrystal ==
    (/\ out.op = "plot_event"
     /\ \E i \in 1..Len(returned[out.arg[1]].event.r_theta_phis) :
            returned[out.arg[1]].event.r_theta_phis[i] = None)
        => out.raised = ""

\* C11 as claimed: plot_event draws the calorimeter (theta, phi) scatter if
\* and only if the Event has more than one calorimeter record: none is drawn
\* with zero records or one, and it is drawn with two or more.
CaloScatterIffSeveralRecords ==
    out.op = "plot_event" =>
        ((out.value # <<>>)
            <=> (Len(returned[out.arg[1]].event.crystal_ids) > 1))

\* the guard alone: no scatter is drawn with zero records or one, and with
\* two or more it is drawn whenever plot_event does not raise
CaloScatterUnlessRaised ==
    out.op = "plot_event" =>
        LET n == Len(returned[out.arg[1]].event.crystal_ids)
        IN  /\ n <= 1 => (out.value = <<>> /\ out.raised = "")
            /\ (n > 1 /\ out.raised = "") => Len(out.value) = n

----------------------------------------------------------------------------
(* Sources that vary what select_events reads *)

\* events with one hit: decay in flight or at rest, with or without energy
SelectRowSet ==
    {Row(RampHits(1), RampTimes(1), <<e>>, RampPdgs(1), dar, <<>>, <<>>)
        : e \in {0, 2}, dar \in {0, 1}}

InitSelect == \E t \in [1..SelectRows -> SelectRowSet] : InitWith(t)

NextSelect ==
    \E is_event_DAR \in 0..2, num_events \in 0..MaxCount :
        SelectEvents(is_event_DAR, num_events)

SpecSelect == InitSelect /\ [][NextSelect]_vars

\* does the row satisfy the filter: the decay flag asked for (0 in flight,
\* 1 at rest, 2 either) and some nonzero energy deposit
Matches(row, filter) ==
    /\ \E i \in 1..Len(row.pixel_edep) : row.pixel_edep[i] > 0
    /\ filter = 0 => row.pion_dar = 0
    /\ filter = 1 => row.pion_dar = 1

\* C10: select_events returns the first min(count, number of matching rows)
\* indices of the rows matching the filter, in row order, and does not fail
\* when fewer rows match than were asked for.
SelectsFirstMatches ==
    out.op = "select_events" =>
        LET filter == out.arg[1]
            count == out.arg[2]
            res == out.value
            M == {r \in 0..(Len(table) - 1) : Matches(table[r + 1], filter)}
        IN  /\ out.raised = ""
            /\ Len(res) = Min(count, Cardinality(M))
            /\ \A j \in 1..Len(res) :
                 /\ res[j] \in M
                 /\ Cardinality({m \in M : m < res[j]}) = j - 1

\* rows 0, 2 and 4 are the decays at rest with energy, and two were selected
SelectExampleReached ==
    /\ {r \in 0..(Len(table) - 1) : Matches(table[r + 1], 1)} = {0, 2, 4}
    /\ out.op = "select_events"
    /\ out.arg = <<1, 2>>
    /\ out.value = <<0, 2>>

====
